---- MODULE Spec2Model ----
(***************************************************************************)
(* Model of the tip-jar proxy (src/proxy-server.js): the TTL cache, the    *)
(* two remote calls, the fan-out aggregator fetchAllUserGamePasses, the    *)
(* record normalizer and the /api/gamepasses and /api/cache/clear routes.  *)
(* JavaScript runs one callback at a time, so every action below is one    *)
(* run-to-completion step of the event loop: the synchronous part of a     *)
(* handler up to its first await, or the continuation after a remote call  *)
(* has resolved or rejected.                                               *)
(***************************************************************************)
EXTENDS Integers, Sequences, FiniteSets, TLC

\* ------------------------------------------------------------------ bounds
NumReq == 2          \* requests the clients send in the shared workload
MaxTicks == 2        \* clock advances in one behaviour
WideCount == 11      \* usable children of the owner with more children than the cap

\* --------------------------------------------------------- program constants
CACHE_DURATION == 5 * 60 * 1000
FanOutCap == 10

Users == {"42", "7"}
Reqs == 1..NumReq

\* ----------------------------------------------------------- JavaScript values
\* Every value has the same three fields so that any two can be compared.
Undefined == [t |-> "undefined", n |-> 0, s |-> ""]
Null == [t |-> "null", n |-> 0, s |-> ""]
Num(x) == [t |-> "number", n |-> x, s |-> ""]
Str(x) == [t |-> "string", n |-> 0, s |-> x]
Bool(b) == [t |-> "boolean", n |-> IF b THEN 1 ELSE 0, s |-> ""]

\* ToBoolean: undefined, null, 0, "" and false are falsy.
Truthy(v) ==
    CASE v.t = "undefined" -> FALSE
      [] v.t = "null" -> FALSE
      [] v.t = "number" -> v.n # 0
      [] v.t = "string" -> v.s # ""
      [] v.t = "boolean" -> v.n = 1

\* a ?? b
OrNullish(a, b) == IF a.t \in {"undefined", "null"} THEN b ELSE a

\* a || b
Or(a, b) == IF Truthy(a) THEN a ELSE b

DigitStr(d) ==
    CASE d = 0 -> "0" [] d = 1 -> "1" [] d = 2 -> "2" [] d = 3 -> "3"
      [] d = 4 -> "4" [] d = 5 -> "5" [] d = 6 -> "6" [] d = 7 -> "7"
      [] d = 8 -> "8" [] d = 9 -> "9"

RECURSIVE NatStr(_)
NatStr(x) == IF x < 10 THEN DigitStr(x) ELSE NatStr(x \div 10) \o DigitStr(x % 10)

\* `${v}` for the values a template can receive here
TemplateStr(v) ==
    CASE v.t = "number" -> NatStr(v.n)
      [] v.t = "string" -> v.s
      [] v.t = "boolean" -> (IF v.n = 1 THEN "true" ELSE "false")
      [] v.t = "null" -> "null"
      [] v.t = "undefined" -> "undefined"

\* --------------------------------------------------------------- raw items
\* An element of an upstream item array: an object with some of the fields
\* the normalizer probes (an absent field reads as undefined), a primitive
\* (every property read gives undefined), or null (a property read throws).
NoFields ==
    [displayIconImageAssetId |-> Undefined, iconImageAssetId |-> Undefined,
     id |-> Undefined, productId |-> Undefined, gamePassId |-> Undefined,
     assetId |-> Undefined, passId |-> Undefined,
     displayName |-> Undefined, name |-> Undefined,
     iconImageUrl |-> Undefined, icon |-> Undefined, imageUrl |-> Undefined,
     displayDescription |-> Undefined, description |-> Undefined]

Obj(f) == [t |-> "object", f |-> f]
NullItem == [t |-> "null", f |-> NoFields]
PrimItem == [t |-> "number", f |-> NoFields]

\* --------------------------------------------------------- canonical record
\* Lines 162-172: the record built for one item, or a TypeError when the
\* item is null.  Returned as [ok, val].
NoRecord == [id |-> Undefined, name |-> Undefined, icon |-> Undefined, description |-> Undefined]

\* a direct URL field preferred to the asset id
formatPassUrlFirst(pass) ==
    IF pass.t = "null"
    THEN [ok |-> FALSE, val |-> NoRecord]
    ELSE LET p == pass.f
             iconAssetId == Or(p.displayIconImageAssetId, p.iconImageAssetId)
             iconUrl == IF Truthy(iconAssetId)
                        THEN Str("rbxassetid://" \o TemplateStr(iconAssetId))
                        ELSE Str("")
         IN [ok |-> TRUE,
             val |-> [id |-> Or(p.id, Or(p.productId, Or(p.gamePassId, Or(p.assetId, p.passId)))),
                      name |-> Or(p.displayName, Or(p.name, Str("Unknown"))),
                      icon |-> Or(p.iconImageUrl, Or(p.icon, Or(p.imageUrl, Or(iconUrl, Str(""))))),
                      description |-> Or(p.displayDescription, Or(p.description, Str("")))]]

formatPass(pass) ==
    IF pass.t = "null"
    THEN [ok |-> FALSE, val |-> NoRecord]
    ELSE LET p == pass.f
             iconAssetId == Or(p.displayIconImageAssetId, p.iconImageAssetId)
             iconUrl == IF Truthy(iconAssetId)
                        THEN Str("rbxassetid://" \o TemplateStr(iconAssetId))
                        ELSE Str("")
         IN [ok |-> TRUE,
             val |-> [id |-> Or(p.id, Or(p.productId, Or(p.gamePassId, Or(p.assetId, p.passId)))),
                      name |-> Or(p.displayName, Or(p.name, Str("Unknown"))),
                      icon |-> Or(iconUrl, Or(p.iconImageUrl, Or(p.icon, Or(p.imageUrl, Str(""))))),
                      description |-> Or(p.displayDescription, Or(p.description, Str("")))]]

\* Array.prototype.map(formatPass): throws as soon as one element throws.
RECURSIVE MapFormat(_)
MapFormat(items) ==
    IF items = <<>> THEN [ok |-> TRUE, val |-> <<>>]
    ELSE LET h == formatPass(Head(items))
             r == MapFormat(Tail(items))
         IN IF h.ok /\ r.ok THEN [ok |-> TRUE, val |-> <<h.val>> \o r.val]
            ELSE [ok |-> FALSE, val |-> <<>>]

\* ------------------------------------------------------- upstream replies
\* What one https.get can end in: the 'error' event, or the 'end' event with
\* a status code and a body that parses to a JSON value or does not.
\* A container field (gamePasses, data) of a parsed body is absent, null, an
\* array, or some other truthy value that is not an array.
NoCont == [t |-> "undefined", items |-> <<>>]
NullCont == [t |-> "null", items |-> <<>>]
Arr(items) == [t |-> "array", items |-> items]
StrCont == [t |-> "string", items |-> <<>>]

ContTruthy(c) == c.t \in {"array", "string"}

\* a parsed body: an object, a bare array, or null
JObject(gp, d) == [t |-> "object", gamePasses |-> gp, data |-> d, items |-> <<>>]
JArray(items) == [t |-> "array", gamePasses |-> NoCont, data |-> NoCont, items |-> items]
JNull == [t |-> "null", gamePasses |-> NoCont, data |-> NoCont, items |-> <<>>]

NetError == [ev |-> "error", status |-> 0, parses |-> FALSE, json |-> JNull]
Reply(status, json) == [ev |-> "end", status |-> status, parses |-> TRUE, json |-> json]
BadBody(status) == [ev |-> "end", status |-> status, parses |-> FALSE, json |-> JNull]

\* Lines 51-88: the promise settles once; [ok |-> TRUE] is resolve(jsonData),
\* [ok |-> FALSE] is reject(error) with the error's message.
Resolved(j) == [ok |-> TRUE, json |-> j, message |-> ""]
Rejected(m) == [ok |-> FALSE, json |-> JNull, message |-> m]

fetchUniverseGamePasses(reply) ==
    IF reply.ev = "error" THEN Rejected("transport")
    ELSE IF reply.status # 200 THEN Rejected("API returned status " \o NatStr(reply.status))
    ELSE IF ~reply.parses THEN Rejected("parse")
    ELSE Resolved(reply.json)

\* Lines 91-127
fetchUserGames(reply) ==
    IF reply.ev = "error" THEN Rejected("transport")
    ELSE IF reply.status # 200 THEN Rejected("API returned status " \o NatStr(reply.status))
    ELSE IF ~reply.parses THEN Rejected("parse")
    ELSE Resolved(reply.json)

\* Lines 159-177 and 251-284: pick the container, then format every item.
\* [ok |-> FALSE] is a thrown TypeError (a null body or a null item).
passesArrayOf(resp) ==
    IF ContTruthy(resp.gamePasses) THEN resp.gamePasses
    ELSE IF ContTruthy(resp.data) THEN resp.data
    ELSE IF resp.t = "array" THEN Arr(resp.items)
    ELSE Arr(<<>>)

unwrapPasses(resp) ==
    IF resp.t = "null" THEN [ok |-> FALSE, val |-> <<>>]
    ELSE LET passesArray == passesArrayOf(resp)
         IN IF passesArray.t = "array" /\ Len(passesArray.items) > 0
            THEN MapFormat(passesArray.items)
            ELSE [ok |-> TRUE, val |-> <<>>]

\* Lines 156-182: the async callback of one child.  It never rejects: a
\* rejected fetch and a TypeError both end in the catch, which returns [].
childPasses(settled) ==
    IF ~settled.ok THEN <<>>
    ELSE LET u == unwrapPasses(settled.json)
         IN IF u.ok THEN u.val ELSE <<>>

\* Line 188: allResults.flat()
RECURSIVE Flat(_)
Flat(lists) == IF lists = <<>> THEN <<>> ELSE Head(lists) \o Flat(Tail(lists))

\* Lines 150-151: derive the ids, drop the falsy ones, keep the first ten.
RECURSIVE deriveIds(_)
deriveIds(games) ==
    IF games = <<>> THEN <<>>
    ELSE LET id == Or(Head(games).id, Head(games).universeId)
         IN (IF Truthy(id) THEN <<id>> ELSE <<>>) \o deriveIds(Tail(games))

\* the fan-out without the limit
sliceAll(ids) == ids

slice10(ids) == SubSeq(ids, 1, IF Len(ids) < FanOutCap THEN Len(ids) ELSE FanOutCap)

\* the cap applied to the children before the ids are filtered
gamesToCheckCapFirst(games) ==
    deriveIds(SubSeq(games, 1, IF Len(games) < FanOutCap THEN Len(games) ELSE FanOutCap))

gamesToCheckOf(games) == slice10(deriveIds(games))

\* ------------------------------------------------------------- the upstream
\* The replies the two Roblox endpoints can give.  The upstream is free to
\* answer differently on every call.
Game(id, universeId) == [id |-> id, universeId |-> universeId]

Gold == Obj([NoFields EXCEPT !.id = Num(101), !.name = Str("Gold")])
Silver == Obj([NoFields EXCEPT !.gamePassId = Num(7), !.displayName = Str("Silver"),
                               !.displayIconImageAssetId = Num(55),
                               !.iconImageUrl = Str("http://i")])
Plain(k) == Obj([NoFields EXCEPT !.id = Num(100 + k)])

\* games 3, 4, ... : k of them
RECURSIVE WideList(_)
WideList(k) == IF k = 0 THEN <<>> ELSE WideList(k - 1) \o <<Game(Num(k + 2), Undefined)>>

\* Bodies of the user-games endpoint.  In the shared workload an owner has at
\* most one usable child; in the solo workload one request meets owners of
\* two children and of more children than the cap.
PlainGames ==
    { JObject(NoCont, Arr(<<>>)),
      JObject(NoCont, NoCont),
      JObject(NoCont, Arr(<<Game(Null, Undefined), Game(Num(0), Undefined)>>)),
      JObject(NoCont, Arr(<<Game(Num(0), Num(1))>>)),
      JNull }

SoloGames ==
    PlainGames \cup
    { JObject(NoCont, Arr(<<Game(Num(1), Undefined), Game(Undefined, Num(2))>>)),
      JObject(NoCont, Arr(<<Game(Num(3), Undefined), Game(Undefined, Null)>>
                          \o Tail(WideList(WideCount)))) }

GamesReplies(w) ==
    {NetError, BadBody(200), Reply(500, JNull)}
        \cup {Reply(200, j) : j \in IF w THEN SoloGames ELSE PlainGames}

\* bodies of the universe game-passes endpoint, by the id in the URL
PassReplies(id) ==
    CASE TemplateStr(id) = "1" -> {NetError,
                      Reply(200, JObject(Arr(<<Gold, Silver>>), NoCont)),
                      Reply(200, JObject(Arr(<<Gold, NullItem>>), NoCont))}
      [] TemplateStr(id) = "2" -> {Reply(404, JNull), BadBody(200),
                      Reply(200, JObject(NoCont, Arr(<<Silver>>))),
                      Reply(200, JArray(<<Gold>>))}
      [] OTHER -> {Reply(200, JObject(Arr(<<Plain(id.n)>>), NoCont))}

\* values of the universeId query parameter
UniverseParams == {Str("1"), Str("2")}

\* ------------------------------------------------------------------- state
VARIABLES
    now,        \* Date.now()
    ticks,      \* clock advances so far
    passCache,  \* line 17: userId -> {passes, timestamp}, or no entry
    req,        \* the /api/gamepasses requests and where each one stands
    toSend,     \* requests the clients have yet to send
    solo,       \* the solo workload: one request, owners of many children
    lastDone,   \* per owner, the last aggregate call that returned
    probe,      \* one raw item put through the two copies of the normalizer
    hung        \* the remote call that never completes, if there is one

vars == <<now, ticks, passCache, req, toSend, solo, lastDone, probe, hung>>

NoEntry == [present |-> FALSE, passes |-> <<>>, timestamp |-> 0]
Entry(passes, at) == [present |-> TRUE, passes |-> passes, timestamp |-> at]

NoResponse == [status |-> 0, success |-> FALSE, gamePasses |-> <<>>, count |-> 0, error |-> ""]
Ok200(list) == [status |-> 200, success |-> TRUE, gamePasses |-> list, count |-> Len(list), error |-> ""]
Fail(status, message) == [status |-> status, success |-> FALSE, gamePasses |-> <<>>, count |-> 0, error |-> message]

\* A returned aggregate call: its records, whether they are in the cache
\* (served from it or stored into it) and the time the freshness window of
\* that call starts.
NoPrev == [valid |-> FALSE, res |-> <<>>, win |-> 0, stored |-> FALSE]
Prev(res, win, stored) == [valid |-> TRUE, res |-> res, win |-> win, stored |-> stored]
Pending == [st |-> "pending", settled |-> Rejected("")]
Settled(x) == [st |-> "done", settled |-> x]

\* No item is on the bench in the request workloads.
NoProbe == [st |-> "off", item |-> NullItem, out |-> [ok |-> TRUE, val |-> <<>>]]

\* Lines 58-86 and 97-125: https.get is given no timeout, so a call whose
\* peer never answers neither resolves nor rejects.  call 0 is the request's
\* fetchUserGames, call i its i-th fetchUniverseGamePasses.
NoHung == [r |-> 0, call |-> 0]
Hung(r, call) == hung.r = r /\ hung.call = call

Idle ==
    [pc |-> "idle", userId |-> "", universeId |-> Undefined, forceRefresh |-> FALSE,
     games |-> <<>>, gamesToCheck |-> <<>>, slots |-> <<>>, allResults |-> <<>>,
     inverted |-> FALSE,
     how |-> "", userCalls |-> 0, passCalls |-> <<>>,
     result |-> <<>>, response |-> NoResponse,
     prev |-> NoPrev, prevFresh |-> FALSE, overlap |-> FALSE, wiped |-> FALSE]

\* ------------------------------------------------------------------- cache
\* Lines 22-39.  Null is the absent result.
Hit(passes) == [hit |-> TRUE, passes |-> passes]
Miss == [hit |-> FALSE, passes |-> <<>>]

\* an entry of age exactly CACHE_DURATION still served
getCachedPassesInclusive(cache, clock, userId, forceRefresh) ==
    IF forceRefresh THEN Miss
    ELSE LET cached == cache[userId]
         IN IF cached.present /\ (clock - cached.timestamp) <= CACHE_DURATION
            THEN Hit(cached.passes)
            ELSE Miss

getCachedPasses(cache, clock, userId, forceRefresh) ==
    IF forceRefresh THEN Miss
    ELSE LET cached == cache[userId]
         IN IF cached.present /\ (clock - cached.timestamp) < CACHE_DURATION
            THEN Hit(cached.passes)
            ELSE Miss

\* a get that drops the entry it finds expired
passCacheAfterGetEvicting(cache, clock, userId, forceRefresh) ==
    IF cache[userId].present /\ (clock - cache[userId].timestamp) >= CACHE_DURATION
    THEN [cache EXCEPT ![userId] = NoEntry]
    ELSE cache

\* Lines 22-39 assign nothing: passCache after a get is passCache before it.
passCacheAfterGet(cache, clock, userId, forceRefresh) == cache

\* a put that appends to the records already stored for the key
cachePassesMerging(cache, clock, userId, passes) ==
    [cache EXCEPT ![userId] = Entry(cache[userId].passes \o passes, clock)]

\* Lines 42-48
cachePasses(cache, clock, userId, passes) ==
    [cache EXCEPT ![userId] = Entry(passes, clock)]

\* ------------------------------------------------------------- aggregator
\* values collected in the order the children complete
ResultIndexArrival(slots, i) == 1 + Cardinality({j \in 1..Len(slots) : slots[j].st = "done"})

\* Promise.all keeps each child's value at the child's own index.
ResultIndex(slots, i) == i

\* one list of child promises shared by the aggregations that are open
JoinReadyShared(slots) ==
    /\ \A j \in 1..Len(slots) : slots[j].st = "done"
    /\ Cardinality({p \in Reqs \X (1..FanOutCap) :
                        /\ p[2] <= Len(req[p[1]].slots)
                        /\ req[p[1]].slots[p[2]].st = "pending"}) <= 1

\* a join that a failed child ends early
JoinFirstFailure(slots) ==
    \/ \A j \in 1..Len(slots) : slots[j].st = "done"
    \/ \E j \in 1..Len(slots) : slots[j].st = "done" /\ ~slots[j].settled.ok

\* a join that only children that succeeded can complete
JoinReadyFulfilled(slots) ==
    \A j \in 1..Len(slots) : slots[j].st = "done" /\ slots[j].settled.ok

\* Promise.all resolves when every child promise has settled.
JoinReady(slots) == \A j \in 1..Len(slots) : slots[j].st = "done"

Init ==
    /\ now = 0
    /\ ticks = 0
    /\ passCache = [u \in Users |-> NoEntry]
    /\ req = [r \in Reqs |-> Idle]
    /\ toSend = NumReq
    /\ solo = FALSE
    /\ lastDone = [u \in Users |-> NoPrev]
    /\ probe = NoProbe
    /\ hung = NoHung

\* The solo workload.
InitSolo ==
    /\ now = 0
    /\ ticks = 0
    /\ passCache = [u \in Users |-> NoEntry]
    /\ req = [r \in Reqs |-> Idle]
    /\ toSend = 1
    /\ solo = TRUE
    /\ lastDone = [u \in Users |-> NoPrev]
    /\ probe = NoProbe
    /\ hung = NoHung

\* Date.now() moves on.  The steps reach the ages just below, at and just
\* above CACHE_DURATION.
Tick ==
    /\ ticks < MaxTicks
    /\ \E d \in {1, CACHE_DURATION - 1} : now' = now + d
    /\ ticks' = ticks + 1
    /\ UNCHANGED <<passCache, req, toSend, solo, lastDone, probe, hung>>

\* Requests are numbered in the order they arrive.
CanStart(r) ==
    /\ toSend > 0
    /\ req[r].pc = "idle"
    /\ \A q \in Reqs : q < r => req[q].pc # "idle"

\* An aggregation for owner u that missed the cache and has not returned.
InFlightFor(q, u) == req[q].pc \in {"awaitGames", "awaitPasses"} /\ req[q].userId = u

\* Lines 312-316 after line 308: the aggregate returned list; answer 200.
Returned(rq, list, how) ==
    [rq EXCEPT !.pc = "done", !.how = how, !.result = list,
               !.response = Ok200(list)]

\* Lines 236-240, 294-308 and 130-140: GET /api/gamepasses?userId=u with or
\* without refresh.  A cache hit is answered at once, a miss calls
\* fetchUserGames and waits.
GetUser(r, u, fr) ==
    /\ CanStart(r)
    /\ LET cached == getCachedPasses(passCache, now, u, fr)
           rq == [Idle EXCEPT !.userId = u, !.forceRefresh = fr,
                              !.prev = lastDone[u],
                              !.prevFresh = (now - lastDone[u].win) < CACHE_DURATION]
       IN IF cached.hit
          THEN /\ req' = [req EXCEPT ![r] = Returned(rq, cached.passes, "hit")]
               /\ lastDone' = [lastDone EXCEPT ![u] =
                      Prev(cached.passes, passCache[u].timestamp, TRUE)]
          ELSE /\ req' = [q \in Reqs |->
                      IF q = r
                      THEN [rq EXCEPT !.pc = "awaitGames", !.userCalls = 1,
                                      !.overlap = \E o \in Reqs : InFlightFor(o, u)]
                      ELSE IF InFlightFor(q, u) THEN [req[q] EXCEPT !.overlap = TRUE]
                      ELSE req[q]]
               /\ UNCHANGED lastDone
    /\ passCache' = passCacheAfterGet(passCache, now, u, fr)
    /\ toSend' = toSend - 1
    /\ UNCHANGED <<now, ticks, solo, probe, hung>>

\* Lines 185-195: every child has settled; flatten, store, return.
Finish(r, rq) ==
    LET allPasses == Flat(rq.allResults)
    IN /\ passCache' = cachePasses(passCache, now, rq.userId, allPasses)
       /\ req' = [req EXCEPT ![r] =
              Returned(rq, allPasses, "fetched")]
       /\ lastDone' = [lastDone EXCEPT ![rq.userId] = Prev(allPasses, now, TRUE)]

\* a return of [] that stores the [] first
GiveUpStoringEmpty(r, rq, how) ==
    /\ req' = [req EXCEPT ![r] = Returned(rq, <<>>, how)]
    /\ lastDone' = [lastDone EXCEPT ![rq.userId] = Prev(<<>>, now, TRUE)]
    /\ passCache' = cachePasses(passCache, now, rq.userId, <<>>)

\* Lines 197-200 and 145-147: the aggregate returns [] without storing.
GiveUp(r, rq, how) ==
    /\ req' = [req EXCEPT ![r] = Returned(rq, <<>>, how)]
    /\ lastDone' = [lastDone EXCEPT ![rq.userId] = Prev(<<>>, now, FALSE)]
    /\ UNCHANGED passCache

\* Lines 140-158: fetchUserGames has settled.
GamesSettle(r, reply) ==
    /\ req[r].pc = "awaitGames"
    /\ ~Hung(r, 0)
    /\ reply \in GamesReplies(solo)
    /\ LET settled == fetchUserGames(reply)
           rq == req[r]
       IN IF ~settled.ok THEN GiveUp(r, rq, "rejected")
          ELSE IF settled.json.t = "null" THEN GiveUp(r, rq, "threw")
          ELSE LET games == IF ContTruthy(settled.json.data)
                            THEN settled.json.data.items ELSE <<>>
                   gamesToCheck == gamesToCheckOf(games)
                   launched == [rq EXCEPT !.games = games,
                                          !.gamesToCheck = gamesToCheck,
                                          !.slots = [i \in 1..Len(gamesToCheck) |-> Pending],
                                          !.allResults = [i \in 1..Len(gamesToCheck) |-> <<>>],
                                          !.passCalls = gamesToCheck,
                                          !.pc = "awaitPasses"]
               IN IF Len(games) = 0 THEN GiveUp(r, rq, "nogames")
                  ELSE IF JoinReady(launched.slots) THEN Finish(r, launched)
                  ELSE /\ req' = [req EXCEPT ![r] = launched]
                       /\ UNCHANGED <<passCache, lastDone>>
    /\ UNCHANGED <<now, ticks, toSend, solo, probe, hung>>

\* Lines 158-181, then 185-195 once the last child is in: the fetch of child
\* i has settled.
PassSettle(r, i, reply) ==
    /\ req[r].pc = "awaitPasses"
    /\ i \in 1..Len(req[r].slots)
    /\ req[r].slots[i].st = "pending"
    /\ ~Hung(r, i)
    /\ reply \in PassReplies(req[r].gamesToCheck[i])
    /\ LET settled == fetchUniverseGamePasses(reply)
           rq == req[r]
           k == ResultIndex(rq.slots, i)
           after == [rq EXCEPT !.slots[i] = Settled(settled),
                               !.allResults[k] = childPasses(settled),
                               !.inverted = rq.inverted \/ \E j \in 1..(i - 1) : rq.slots[j].st = "pending"]
       IN IF JoinReady(after.slots) THEN Finish(r, after)
          ELSE /\ req' = [req EXCEPT ![r] = after]
               /\ UNCHANGED <<passCache, lastDone>>
    /\ UNCHANGED <<now, ticks, toSend, solo, probe, hung>>

\* --------------------------------------------------- the universeId route
\* Lines 251-266: the handler's own copy of the unwrap-and-format loop.
RECURSIVE pushAll(_)
pushAll(items) ==
    IF items = <<>> THEN [ok |-> TRUE, val |-> <<>>]
    ELSE LET item == Head(items)
             rest == pushAll(Tail(items))
         IN IF item.t = "null" \/ ~rest.ok THEN [ok |-> FALSE, val |-> <<>>]
            ELSE LET f == item.f
                     iconAssetId == Or(f.displayIconImageAssetId, f.iconImageAssetId)
                     iconUrl == IF Truthy(iconAssetId)
                                THEN Str("rbxassetid://" \o TemplateStr(iconAssetId))
                                ELSE Str("")
                 IN [ok |-> TRUE,
                     val |-> <<[id |-> Or(f.id, Or(f.productId, Or(f.gamePassId, Or(f.assetId, f.passId)))),
                                name |-> Or(f.displayName, Or(f.name, Str("Unknown"))),
                                icon |-> Or(iconUrl, Or(f.iconImageUrl, Or(f.icon, Or(f.imageUrl, Str(""))))),
                                description |-> Or(f.displayDescription, Or(f.description, Str("")))]>>
                             \o rest.val]

universePasses(response) ==
    IF response.t = "null" THEN [ok |-> FALSE, val |-> <<>>]
    ELSE LET gamePassesArray ==
                 IF ContTruthy(response.gamePasses) THEN response.gamePasses
                 ELSE IF ContTruthy(response.data) THEN response.data
                 ELSE IF response.t = "array" THEN Arr(response.items)
                 ELSE Arr(<<>>)
         IN IF gamePassesArray.t = "array" /\ Len(gamePassesArray.items) > 0
            THEN pushAll(gamePassesArray.items)
            ELSE [ok |-> TRUE, val |-> <<>>]

\* The userId parameter as a request can carry it: absent, or an owner.
UserParams == Users \cup {""}

\* a handler that goes on to the userId branch after the direct fetch
GetUniverseFallingThrough(r, c, u) ==
    /\ CanStart(r)
    /\ req' = [req EXCEPT ![r] = [Idle EXCEPT !.universeId = c,
                                              !.passCalls = <<c>>, !.pc = "awaitUniverse",
                                              !.userCalls = IF u = "" THEN 0 ELSE 1]]
    /\ toSend' = toSend - 1
    /\ UNCHANGED <<now, ticks, passCache, solo, lastDone, probe, hung>>

\* Lines 236-245: GET /api/gamepasses?universeId=c, with userId=u or without
\* it.  universeId is looked at first and its branch returns (lines 268 and
\* 286), so u is not read.
GetUniverse(r, c, u) ==
    /\ CanStart(r)
    /\ req' = [req EXCEPT ![r] = [Idle EXCEPT !.universeId = c,
                                              !.passCalls = <<c>>, !.pc = "awaitUniverse"]]
    /\ toSend' = toSend - 1
    /\ UNCHANGED <<now, ticks, passCache, solo, lastDone, probe, hung>>

\* Lines 245-291: what the universeId branch answers once the direct fetch
\* has settled: 200 with the formatted list, or 500 from the catch with the
\* message of the rejection or of the TypeError.
universeAnswer(settled) ==
    IF ~settled.ok THEN Fail(500, settled.message)
    ELSE LET out == universePasses(settled.json)
         IN IF ~out.ok THEN Fail(500, "TypeError") ELSE Ok200(out.val)

\* a direct fetch whose failure is answered like a failed child's: 200, []
UniverseSettleSwallowing(r, reply) ==
    /\ req[r].pc = "awaitUniverse"
    /\ ~Hung(r, 1)
    /\ reply \in PassReplies(req[r].universeId)
    /\ LET settled == fetchUniverseGamePasses(reply)
           out == universePasses(settled.json)
           rq == req[r]
       IN req' = [req EXCEPT ![r] =
              IF ~settled.ok \/ ~out.ok
              THEN [rq EXCEPT !.pc = "done", !.how = "direct", !.response = Ok200(<<>>)]
              ELSE [rq EXCEPT !.pc = "done", !.how = "direct",
                              !.result = out.val, !.response = Ok200(out.val)]]
    /\ UNCHANGED <<now, ticks, passCache, toSend, solo, lastDone, probe, hung>>

\* Lines 245-291: the direct fetch has settled.
UniverseSettle(r, reply) ==
    /\ req[r].pc = "awaitUniverse"
    /\ ~Hung(r, 1)
    /\ reply \in PassReplies(req[r].universeId)
    /\ LET settled == fetchUniverseGamePasses(reply)
           out == universePasses(settled.json)
           rq == req[r]
       IN req' = [req EXCEPT ![r] =
              IF ~settled.ok
              THEN [rq EXCEPT !.pc = "done", !.how = "rejected",
                              !.response = universeAnswer(settled)]
              ELSE IF ~out.ok
              THEN [rq EXCEPT !.pc = "done", !.how = "threw",
                              !.response = universeAnswer(settled)]
              ELSE [rq EXCEPT !.pc = "done", !.how = "direct",
                              !.result = out.val, !.response = universeAnswer(settled)]]
    /\ UNCHANGED <<now, ticks, passCache, toSend, solo, lastDone, probe, hung>>

\* Lines 294-300: neither parameter.
GetNeither(r) ==
    /\ CanStart(r)
    /\ req' = [req EXCEPT ![r] = [Idle EXCEPT !.pc = "done", !.how = "bad",
                     !.response = Fail(400, "universeId or userId parameter is required")]]
    /\ toSend' = toSend - 1
    /\ UNCHANGED <<now, ticks, passCache, solo, lastDone, probe, hung>>

\* ------------------------------------------------------- /api/cache/clear
\* Object.keys(passCache)
Keys(cache) == {u \in Users : cache[u].present}

\* a clear of one key that empties the whole cache
clearUserEverything(cache, userId) == [u \in Users |-> NoEntry]

\* Lines 346-348: passCache after ?userId=u.
clearUser(cache, userId) ==
    IF cache[userId].present THEN [cache EXCEPT ![userId] = NoEntry] ELSE cache

\* Lines 349-357: the answer to ?userId=u.
clearUserResponse(cache, userId) ==
    IF cache[userId].present
    THEN [success |-> TRUE, message |-> "Cache cleared for user " \o userId]
    ELSE [success |-> TRUE, message |-> "No cache found for user " \o userId]

\* Line 362: passCache after a clear without userId.
clearAll(cache) == [u \in Users |-> IF u \in Keys(cache) THEN NoEntry ELSE cache[u]]

\* the entries counted once they are gone
clearAllResponseCountedAfter(cache) ==
    LET count == Cardinality(Keys(clearAll(cache)))
    IN [success |-> TRUE, message |-> "All cache cleared (" \o NatStr(count) \o " entries)"]

\* Lines 361 and 363-367: the answer to a clear without userId.
clearAllResponse(cache) ==
    LET count == Cardinality(Keys(cache))
    IN [success |-> TRUE, message |-> "All cache cleared (" \o NatStr(count) \o " entries)"]

\* a clear that drops the aggregations in flight for the keys it deletes
WipedCancelling(gone) ==
    [q \in Reqs |-> IF \E u \in gone : InFlightFor(q, u)
                    THEN Returned([req[q] EXCEPT !.wiped = TRUE], <<>>, "cancelled")
                    ELSE req[q]]

\* The requests after the entries of the keys in gone were deleted: the
\* handler touches no request; an aggregation in flight for such a key is
\* marked as having seen its key's entry go.
Wiped(gone) ==
    [q \in Reqs |-> IF \E u \in gone : InFlightFor(q, u)
                    THEN [req[q] EXCEPT !.wiped = TRUE] ELSE req[q]]

\* Lines 342-358.  When an entry goes, lastDone forgets the owner: a call
\* after the clear is not the next call after the one before it.
ClearOne(u) ==
    /\ passCache' = clearUser(passCache, u)
    /\ lastDone' = [lastDone EXCEPT ![u] = IF passCache[u].present THEN NoPrev ELSE @]
    /\ req' = Wiped(Keys(passCache) \cap {u})
    /\ UNCHANGED <<now, ticks, toSend, solo, probe, hung>>

\* Lines 359-368
ClearAll ==
    /\ passCache' = clearAll(passCache)
    /\ lastDone' = [u \in Users |-> IF passCache[u].present THEN NoPrev ELSE lastDone[u]]
    /\ req' = Wiped(Keys(passCache))
    /\ UNCHANGED <<now, ticks, toSend, solo, probe, hung>>

\* -------------------------------------------------------- /api/cache/info
\* Math.round(x / 1000): the nearest integer, a half going up.
MathRoundThousandth(x) == (x + 500) \div 1000

\* the time left taken with the wrong sign
infoEntryAgeOverTtl(userId, cached, clock) ==
    LET age == clock - cached.timestamp
        expiresIn == age - CACHE_DURATION
    IN [userId |-> userId,
        passCount |-> Len(cached.passes),
        ageSeconds |-> MathRoundThousandth(age),
        expiresInSeconds |-> MathRoundThousandth(expiresIn),
        isExpired |-> expiresIn <= 0]

\* an entry with no time left not yet called expired
infoEntryStrict(userId, cached, clock) ==
    LET age == clock - cached.timestamp
        expiresIn == CACHE_DURATION - age
    IN [userId |-> userId,
        passCount |-> Len(cached.passes),
        ageSeconds |-> MathRoundThousandth(age),
        expiresInSeconds |-> MathRoundThousandth(expiresIn),
        isExpired |-> expiresIn < 0]

\* Lines 374-385: the report on one entry.
infoEntry(userId, cached, clock) ==
    LET age == clock - cached.timestamp
        expiresIn == CACHE_DURATION - age
    IN [userId |-> userId,
        passCount |-> Len(cached.passes),
        ageSeconds |-> MathRoundThousandth(age),
        expiresInSeconds |-> MathRoundThousandth(expiresIn),
        isExpired |-> expiresIn <= 0]

\* Lines 373-392: the answer of the info route, the entries by key.
cacheInfo(cache, clock) ==
    [success |-> TRUE,
     cacheDuration |-> NatStr(CACHE_DURATION \div 1000) \o " seconds",
     totalEntries |-> Cardinality(Keys(cache)),
     entries |-> [u \in Keys(cache) |-> infoEntry(u, cache[u], clock)]]

\* Lines 372-393: the handler reads passCache and the clock and writes
\* nothing.
CacheInfo == UNCHANGED vars

Next ==
    \/ Tick
    \/ \E r \in Reqs, u \in Users, fr \in BOOLEAN : GetUser(r, u, fr)
    \/ \E r \in Reqs, reply \in GamesReplies(solo) : GamesSettle(r, reply)
    \/ \E r \in Reqs : \E i \in 1..Len(req[r].slots) :
           \E reply \in PassReplies(req[r].gamesToCheck[i]) : PassSettle(r, i, reply)
    \/ \E r \in Reqs, c \in UniverseParams, u \in UserParams : GetUniverse(r, c, u)
    \/ \E r \in Reqs : \E reply \in PassReplies(req[r].universeId) : UniverseSettle(r, reply)
    \/ \E r \in Reqs : GetNeither(r)
    \/ \E u \in Users : ClearOne(u)
    \/ ClearAll
    \/ CacheInfo

Spec == Init /\ [][Next]_vars
SpecSolo == InitSolo /\ [][Next]_vars

\* ------------------------------------------------- one call never completes
\* The shared workload with one remote call chosen to hang.  Whether a call
\* hangs does not depend on the clock, which is left one advance.
InitLive ==
    /\ now = 0
    /\ ticks = MaxTicks - 1
    /\ passCache = [u \in Users |-> NoEntry]
    /\ req = [r \in Reqs |-> Idle]
    /\ toSend = NumReq
    /\ solo = FALSE
    /\ lastDone = [u \in Users |-> NoPrev]
    /\ probe = NoProbe
    /\ hung \in {[r |-> x, call |-> c] : x \in Reqs, c \in 0..1}

\* Every remote call but the hung one is answered or fails in the end: the
\* step that settles it, once enabled, is taken.
Settles(q) ==
    \/ \E reply \in GamesReplies(solo) : GamesSettle(q, reply)
    \/ \E i \in 1..Len(req[q].slots) :
           \E reply \in PassReplies(req[q].gamesToCheck[i]) : PassSettle(q, i, reply)
    \/ \E reply \in PassReplies(req[q].universeId) : UniverseSettle(q, reply)

CallsComplete == \A q \in Reqs : WF_vars(Settles(q))

SpecLive == InitLive /\ [][Next]_vars /\ CallsComplete

\* ------------------------------------------------- every call completes
\* The shared and the solo workload with no call that hangs: each remote
\* call issued is answered or fails in the end.  Whether a call completes
\* does not depend on the clock, which is left one advance in the shared
\* workload and none in the solo one.
InitFair ==
    /\ now = 0
    /\ \/ solo = FALSE /\ toSend = NumReq /\ ticks = MaxTicks - 1
       \/ solo = TRUE /\ toSend = 1 /\ ticks = MaxTicks
    /\ passCache = [u \in Users |-> NoEntry]
    /\ req = [r \in Reqs |-> Idle]
    /\ lastDone = [u \in Users |-> NoPrev]
    /\ probe = NoProbe
    /\ hung = NoHung

SpecFair == InitFair /\ [][Next]_vars /\ CallsComplete

\* ------------------------------------------------------ the normalizer alone
\* What a field of a raw item can hold: nothing, one of the falsy values of
\* JSON, or the value tv.
Cand(tv) == {Undefined, Null, Num(0), Str(""), Bool(FALSE), tv}

\* Items that differ in the id candidates; candidate i holds n + i when
\* it is truthy.
IdItems(n) ==
    {Obj([NoFields EXCEPT !.id = a, !.productId = b, !.gamePassId = c,
                          !.assetId = d, !.passId = e]) :
        a \in Cand(Num(n + 1)), b \in Cand(Num(n + 2)), c \in Cand(Num(n + 3)),
        d \in Cand(Num(n + 4)), e \in Cand(Num(n + 5))}

\* Items that differ in the name and description candidates.
TextItems(n) ==
    {Obj([NoFields EXCEPT !.displayName = a, !.name = b,
                          !.displayDescription = c, !.description = d]) :
        a \in Cand(Str("Display")), b \in Cand(Str("Name")),
        c \in Cand(Str("Long")), d \in Cand(Num(n))}

\* Items that differ in the icon candidates.
IconItems(n) ==
    {Obj([NoFields EXCEPT !.displayIconImageAssetId = a, !.iconImageAssetId = b,
                          !.iconImageUrl = c, !.icon = d, !.imageUrl = e]) :
        a \in Cand(Num(n + 1)), b \in Cand(Str("22")), c \in Cand(Str("http://c")),
        d \in Cand(Str("http://d")), e \in Cand(Str("http://e"))}

NormItems(n) ==
    IdItems(n) \cup TextItems(n) \cup IconItems(n) \cup {NullItem, PrimItem, Gold, Silver}

InitNorm ==
    /\ now = 0
    /\ ticks = 0
    /\ passCache = [u \in Users |-> NoEntry]
    /\ req = [r \in Reqs |-> Idle]
    /\ toSend = 0
    /\ solo = FALSE
    /\ lastDone = [u \in Users |-> NoPrev]
    /\ hung = NoHung
    /\ probe \in {[st |-> "in", item |-> it, out |-> [ok |-> TRUE, val |-> <<>>]] : it \in NormItems(10)}

\* Lines 162-172: the item as the one element of a child's array in the
\* aggregator.
FormatOne ==
    /\ probe.st = "in"
    /\ probe' = [probe EXCEPT !.st = "mapped", !.out = MapFormat(<<probe.item>>)]
    /\ UNCHANGED <<now, ticks, passCache, req, toSend, solo, lastDone, hung>>

\* Lines 254-266: the item as the one element of the array in the
\* universeId route.
PushOne ==
    /\ probe.st = "in"
    /\ probe' = [probe EXCEPT !.st = "pushed", !.out = pushAll(<<probe.item>>)]
    /\ UNCHANGED <<now, ticks, passCache, req, toSend, solo, lastDone, hung>>

NextNorm ==
    \/ FormatOne
    \/ PushOne

SpecNorm == InitNorm /\ [][NextNorm]_vars

\* ------------------------------------------------- the two unwraps alone
\* Item arrays a container can hold.
ItemLists ==
    {<<>>, <<Gold>>, <<Gold, Silver>>, <<PrimItem>>, <<Obj(NoFields)>>,
     <<NullItem>>, <<Gold, NullItem>>}

\* What the gamePasses or the data field of a body can be.
Conts == {NoCont, NullCont, StrCont} \cup {Arr(l) : l \in ItemLists}

\* Bodies of the universe game-passes endpoint: an object with any pair of
\* containers, a bare array, or null.
Bodies ==
    {JObject(gp, d) : gp \in Conts, d \in Conts}
        \cup {JArray(l) : l \in ItemLists} \cup {JNull}

NotRun == [ran |-> FALSE, val |-> <<>>, response |-> NoResponse]

\* One 200 reply with a body of Bodies, given to a child of an aggregation
\* and to a universeId request.
InitUnwrap ==
    /\ now = 0
    /\ ticks = 0
    /\ passCache = [u \in Users |-> NoEntry]
    /\ req = [r \in Reqs |-> Idle]
    /\ toSend = 0
    /\ solo = FALSE
    /\ lastDone = [u \in Users |-> NoPrev]
    /\ hung = NoHung
    /\ probe \in {[st |-> "body", reply |-> Reply(200, b), child |-> NotRun, direct |-> NotRun] :
                      b \in Bodies}

\* Lines 156-182: the reply as the answer to the one child of an aggregation.
ChildUnwrap ==
    /\ probe.st = "body" /\ ~probe.child.ran
    /\ probe' = [probe EXCEPT !.child =
           [ran |-> TRUE, val |-> childPasses(fetchUniverseGamePasses(probe.reply)),
            response |-> NoResponse]]
    /\ UNCHANGED <<now, ticks, passCache, req, toSend, solo, lastDone, hung>>

\* Lines 245-291: the same reply as the answer to a universeId request.
DirectUnwrap ==
    /\ probe.st = "body" /\ ~probe.direct.ran
    /\ probe' = [probe EXCEPT !.direct =
           LET answer == universeAnswer(fetchUniverseGamePasses(probe.reply))
           IN [ran |-> TRUE, val |-> answer.gamePasses, response |-> answer]]
    /\ UNCHANGED <<now, ticks, passCache, req, toSend, solo, lastDone, hung>>

NextUnwrap ==
    \/ ChildUnwrap
    \/ DirectUnwrap

SpecUnwrap == InitUnwrap /\ [][NextUnwrap]_vars

\* ================================================================ claims
IsUser(rq) == rq.userId # ""
Returns(r) == req[r].pc # "done" /\ req'[r].pc = "done"

\* C1: a call with forceRefresh=false that follows a returned call for the
\* same owner within that call's TTL window returns the same records and
\* issues no remote call, whatever the outcome of the first call was.
C1_SecondCallServedFromCache ==
    \A r \in Reqs :
        (IsUser(req[r]) /\ ~req[r].forceRefresh /\ req[r].prev.valid /\ req[r].prevFresh)
            => /\ req[r].how = "hit"
               /\ req[r].result = req[r].prev.res
               /\ req[r].userCalls = 0
               /\ req[r].passCalls = <<>>

\* C2: a call with forceRefresh=true issues a child-enumeration call, and
\* when it returns the owner's cache entry is the returned result.
C2_ForceRefreshOverwrites ==
    [][\A r \in Reqs :
          (Returns(r) /\ IsUser(req'[r]) /\ req'[r].forceRefresh)
              => /\ req'[r].userCalls = 1
                 /\ passCache'[req'[r].userId] = Entry(req'[r].result, now)]_vars

\* C3: when the child enumeration succeeds with zero usable children, the
\* call returns [] and the owner's cache entry holds [].
C3_NoChildrenCached ==
    [][\A r \in Reqs :
          (Returns(r) /\ IsUser(req'[r]) /\ req'[r].how \in {"nogames", "fetched"}
                      /\ deriveIds(req'[r].games) = <<>>)
              => /\ req'[r].result = <<>>
                 /\ passCache'[req'[r].userId] = Entry(<<>>, now)]_vars

\* C4: a userId request whose child-enumeration call was rejected is answered
\* with HTTP 500 and success false, never with a successful result.
C4_EnumerationFailureIs500 ==
    \A r \in Reqs :
        (IsUser(req[r]) /\ req[r].how = "rejected")
            => /\ req[r].response.status = 500
               /\ req[r].response.success = FALSE
               /\ req[r].response.error # ""

\* What the items of a settled child fetch normalize to when the normalizer
\* is total: a null item gives the record of an item with no known field.
DefaultRecord == [id |-> Undefined, name |-> Str("Unknown"), icon |-> Str(""), description |-> Str("")]

RECURSIVE NormalizedItems(_)
NormalizedItems(items) ==
    IF items = <<>> THEN <<>>
    ELSE <<IF Head(items).t = "null" THEN DefaultRecord ELSE formatPass(Head(items)).val>>
             \o NormalizedItems(Tail(items))

SucceededItems(settled) ==
    IF ~settled.ok \/ settled.json.t = "null" THEN <<>>
    ELSE LET a == passesArrayOf(settled.json)
         IN IF a.t = "array" THEN NormalizedItems(a.items) ELSE <<>>

FetchedDone(rq) == IsUser(rq) /\ rq.pc = "done" /\ rq.how = "fetched"

\* C5: an aggregation some of whose children's item calls fail still answers
\* 200, and its records are the normalized items of the children whose call
\* succeeded, child by child in order; a failed child adds nothing.
C5_PartialFailureTolerated ==
    \A r \in Reqs :
        FetchedDone(req[r])
            => /\ req[r].response.status = 200 /\ req[r].response.success
               /\ req[r].result =
                      Flat([i \in 1..Len(req[r].slots) |-> SucceededItems(req[r].slots[i].settled)])

\* C6: whatever the order in which the children's calls complete, the records
\* are the children's lists concatenated in child order.
C6_ResultInChildOrder ==
    \A r \in Reqs :
        FetchedDone(req[r])
            => req[r].result =
                   Flat([i \in 1..Len(req[r].slots) |-> childPasses(req[r].slots[i].settled)])

\* C6 witness: two children with records, the second completed first.
C6_Witness ==
    \E r \in Reqs :
        /\ FetchedDone(req[r]) /\ req[r].inverted /\ Len(req[r].slots) = 2
        /\ childPasses(req[r].slots[1].settled) # <<>>
        /\ childPasses(req[r].slots[2].settled) # <<>>
        /\ childPasses(req[r].slots[1].settled) # childPasses(req[r].slots[2].settled)

\* the ids of the children of a games list that can be queried, in order
RECURSIVE Usable(_)
Usable(games) ==
    IF games = <<>> THEN <<>>
    ELSE (IF Truthy(Head(games).id) THEN <<Head(games).id>>
          ELSE IF Truthy(Head(games).universeId) THEN <<Head(games).universeId>>
          ELSE <<>>) \o Usable(Tail(games))

\* C7: the item calls of an aggregation are one call for each of the first
\* min(10, n) usable child ids, in order, and never more.
C7_FanOutCapped ==
    \A r \in Reqs :
        IsUser(req[r])
            => LET ids == Usable(req[r].games)
                   m == IF Len(ids) < 10 THEN Len(ids) ELSE 10
               IN /\ req[r].userCalls <= 1
                  /\ Len(req[r].passCalls) = (IF req[r].pc \in {"awaitPasses", "done"} THEN m ELSE 0)
                  /\ \A k \in 1..Len(req[r].passCalls) : req[r].passCalls[k] = ids[k]

\* C7 witness: an owner of more than ten usable children, answered.
C7_Witness ==
    \E r \in Reqs :
        /\ FetchedDone(req[r])
        /\ Len(Usable(req[r].games)) > 10
        /\ Len(req[r].passCalls) = 10

\* C8: every child call is launched before the wait; while a child call is
\* outstanding the aggregation has neither returned nor stored, also after
\* another child has failed.  (In the solo workload the waiting request is
\* the only one that could have stored an entry for its owner.)
C8_JoinAll ==
    \A r \in Reqs :
        IsUser(req[r]) =>
            /\ (req[r].pc = "awaitPasses"
                   => /\ Len(req[r].passCalls) = Len(req[r].gamesToCheck)
                      /\ Len(req[r].slots) = Len(req[r].gamesToCheck)
                      /\ ~passCache[req[r].userId].present)
            /\ ((\E j \in 1..Len(req[r].slots) : req[r].slots[j].st = "pending")
                   => req[r].pc = "awaitPasses" /\ req[r].response = NoResponse)

\* C8 witness: one child has failed, another is still awaited.
C8_Witness ==
    \E r \in Reqs :
        /\ req[r].pc = "awaitPasses"
        /\ \E i, j \in 1..Len(req[r].slots) :
               /\ req[r].slots[i].st = "done" /\ ~req[r].slots[i].settled.ok
               /\ req[r].slots[j].st = "pending"

\* C9: of two overlapping calls for one owner that both miss the cache, each
\* makes its own child-enumeration call and each stores its result when it
\* returns, so the entry is that of the call that returned last.
C9_NoSingleFlight ==
    [][\A r \in Reqs :
          (Returns(r) /\ IsUser(req'[r]) /\ req'[r].overlap)
              => /\ req'[r].userCalls = 1
                 /\ passCache'[req'[r].userId] = Entry(req'[r].result, now)]_vars

\* C10: get returns the stored records exactly when the key has an entry,
\* forceRefresh is false and the entry is younger than the TTL; at age = TTL
\* and in every other case it returns absent.
C10_GetHitsIffFresh ==
    \A u \in Users : \A fr \in BOOLEAN :
        LET e == passCache[u]
            got == getCachedPasses(passCache, now, u, fr)
        IN IF e.present /\ ~fr /\ now - e.timestamp < CACHE_DURATION
           THEN got = Hit(e.passes)
           ELSE got = Miss

\* C10 witness: an entry of age exactly TTL, which get reports absent.
C10_Witness ==
    \E u \in Users :
        /\ passCache[u].present
        /\ now - passCache[u].timestamp = CACHE_DURATION
        /\ passCache[u].passes # <<>>
        /\ getCachedPasses(passCache, now, u, FALSE) = Miss

\* A request for an owner's aggregate arrives in this step: the get runs.
Gets(r) == req[r].pc = "idle" /\ req'[r].pc # "idle" /\ IsUser(req'[r])

\* C11: a get changes no cache entry, whether it hits, misses or is forced;
\* the passage of time changes none either; an entry disappears only in a
\* clear step (no request moves, the clock stands) and an entry changes only
\* in the step in which an aggregate call for its owner stores and returns.
C11_GetNeverMutates ==
    [][ /\ \A r \in Reqs : Gets(r) => passCache' = passCache
        /\ now' # now => passCache' = passCache
        /\ \A u \in Users :
              /\ (passCache[u].present /\ ~passCache'[u].present) =>
                     (now' = now /\ \A r \in Reqs : req'[r] = [req[r] EXCEPT !.wiped = req'[r].wiped])
              /\ (passCache'[u].present /\ passCache'[u] # passCache[u]) =>
                     \E r \in Reqs : Returns(r) /\ req'[r].how = "fetched" /\ req'[r].userId = u
      ]_vars

\* A get without forceRefresh found the owner's entry expired and missed; the
\* entry is still there as the earlier call stored it.
C11_Witness ==
    \E r \in Reqs :
        /\ req[r].pc = "awaitGames" /\ ~req[r].forceRefresh /\ ~req[r].overlap
        /\ req[r].prev.valid /\ req[r].prev.stored /\ ~req[r].prevFresh
        /\ passCache[req[r].userId] = Entry(req[r].prev.res, req[r].prev.win)
        /\ now - passCache[req[r].userId].timestamp >= CACHE_DURATION

\* C12: when an aggregate call that fetched stores its result, the owner's
\* entry becomes exactly the records the call returns with the time of the
\* store, nothing of an earlier entry is kept, and every other owner's entry
\* is as it was.
C12_PutReplacesEntry ==
    [][ \A r \in Reqs : (Returns(r) /\ req'[r].how = "fetched") =>
            /\ passCache'[req'[r].userId] = Entry(req'[r].result, now)
            /\ \A v \in Users \ {req'[r].userId} : passCache'[v] = passCache[v]
      ]_vars

\* A forced call stored over the non-empty entry of the call before it, with
\* different records: the entry holds the later call's records only.
C12_Witness ==
    \E r1, r2 \in Reqs :
        /\ r1 # r2 /\ req[r1].userId = req[r2].userId
        /\ req[r1].pc = "done" /\ req[r1].how = "fetched" /\ req[r1].result # <<>>
        /\ req[r2].pc = "done" /\ req[r2].how = "fetched" /\ req[r2].forceRefresh
        /\ req[r2].prev.stored /\ req[r2].prev.res = req[r1].result
        /\ req[r2].result # req[r1].result
        /\ passCache[req[r2].userId].present
        /\ passCache[req[r2].userId].passes = req[r2].result

\* C13: clearing one key removes that key's entry when there is one, answers
\* success and changes nothing when there is none, and leaves every other
\* key's entry as it was.
C13_ClearOneKey ==
    \A k \in Users :
        LET after == clearUser(passCache, k)
            answer == clearUserResponse(passCache, k)
        IN /\ ~after[k].present
           /\ answer.success
           /\ \A v \in Users \ {k} : after[v] = passCache[v]
           /\ ~passCache[k].present =>
                  (after = passCache /\ answer.message = "No cache found for user " \o k)
           /\ passCache[k].present => answer.message = "Cache cleared for user " \o k

\* Both keys hold an entry with records, so a clear of either has an entry
\* to remove and another to leave alone.
C13_Witness ==
    /\ \A u \in Users : passCache[u].present
    /\ \E u \in Users : passCache[u].passes # <<>>
    /\ \E u \in Users : now - passCache[u].timestamp >= CACHE_DURATION

\* C14: clearing without a key leaves no entry, and the count in the answer
\* is the number of entries there were, the expired ones among them.
C14_ClearAllCountsEveryEntry ==
    LET fresh == {u \in Users : passCache[u].present /\ now - passCache[u].timestamp < CACHE_DURATION}
        expired == {u \in Users : passCache[u].present /\ now - passCache[u].timestamp >= CACHE_DURATION}
    IN /\ \A u \in Users : ~clearAll(passCache)[u].present
       /\ clearAllResponse(passCache).success
       /\ clearAllResponse(passCache).message =
              "All cache cleared (" \o NatStr(Cardinality(fresh) + Cardinality(expired)) \o " entries)"

\* One fresh entry and one expired entry are in the cache: the count is 2.
C14_Witness ==
    /\ \E u \in Users : passCache[u].present /\ now - passCache[u].timestamp < CACHE_DURATION
    /\ \E u \in Users : passCache[u].present /\ now - passCache[u].timestamp >= CACHE_DURATION

\* C15: the info route reports every entry older than CACHE_DURATION as
\* expired with a time left that is zero or negative, reports for every entry
\* the number of records it holds, and one entry per key in the cache.
C15_InfoReportsExpiry ==
    LET info == cacheInfo(passCache, now)
    IN /\ DOMAIN info.entries = {u \in Users : passCache[u].present}
       /\ info.totalEntries = Cardinality(DOMAIN info.entries)
       /\ \A u \in DOMAIN info.entries :
             /\ info.entries[u].passCount = Len(passCache[u].passes)
             /\ (now - passCache[u].timestamp > CACHE_DURATION) =>
                    (info.entries[u].isExpired /\ info.entries[u].expiresInSeconds <= 0)

\* An entry with records is older than CACHE_DURATION.
C15_Witness ==
    \E u \in Users :
        /\ passCache[u].present /\ passCache[u].passes # <<>>
        /\ now - passCache[u].timestamp > CACHE_DURATION

IsUniverse(rq) == rq.universeId # Undefined

\* C16: a request that carries universeId, with userId or without it, makes
\* exactly one item call, for that id, and no child-enumeration call; it is
\* never answered from the cache, and the steps in which it arrives and in
\* which its call settles, well or badly, leave every cache entry unchanged.
C16_UniverseBypassesCache ==
    [][ \A r \in Reqs : (IsUniverse(req'[r]) /\ req'[r] # req[r]) =>
            /\ passCache' = passCache
            /\ req'[r].userCalls = 0
            /\ req'[r].passCalls = <<req'[r].universeId>>
            /\ req'[r].pc = "done" => req'[r].how \in {"direct", "rejected", "threw"}
      ]_vars

\* A universeId request was answered with records while the cache held the
\* entry an aggregate call had stored.
C16_Witness ==
    \E r, q \in Reqs :
        /\ IsUniverse(req[r]) /\ req[r].pc = "done"
        /\ req[r].response.status = 200 /\ req[r].result # <<>>
        /\ FetchedDone(req[q]) /\ req[q].result # <<>>
        /\ passCache[req[q].userId].present
        /\ passCache[req[q].userId].passes = req[q].result

\* C17: the normalizer is total: no item of a received item array makes it
\* throw, whether the array reaches it in the aggregator or in the
\* universeId route, and every item gets a record.
C17_NormalizerTotal ==
    \A r \in Reqs :
        /\ \A i \in 1..Len(req[r].slots) :
               LET x == req[r].slots[i]
               IN (x.st = "done" /\ x.settled.ok /\ x.settled.json.t # "null"
                      /\ passesArrayOf(x.settled.json).t = "array") =>
                  /\ MapFormat(passesArrayOf(x.settled.json).items).ok
                  /\ Len(childPasses(x.settled)) = Len(passesArrayOf(x.settled.json).items)
        /\ (IsUniverse(req[r]) /\ req[r].pc = "done") => req[r].how # "threw"

Normalized == probe.st \in {"mapped", "pushed"} /\ probe.out.ok

\* the first candidate that is not undefined, else the default
RECURSIVE FirstPresent(_, _)
FirstPresent(cands, default) ==
    IF cands = <<>> THEN default
    ELSE IF Head(cands) # Undefined THEN Head(cands)
    ELSE FirstPresent(Tail(cands), default)

\* the candidate of least index that is truthy, else the default
FirstTruthy(cands, default) ==
    IF \E i \in 1..Len(cands) : Truthy(cands[i])
    THEN cands[CHOOSE i \in 1..Len(cands) :
                   Truthy(cands[i]) /\ \A j \in 1..(i - 1) : ~Truthy(cands[j])]
    ELSE default

\* C18 as stated: id, name and description are each the first candidate
\* that is not undefined, be it 0, "", false or null, and the default only
\* when every candidate is undefined.
C18_FirstPresentWins ==
    Normalized =>
        LET f == probe.item.f
            rec == probe.out.val[1]
        IN /\ rec.id = FirstPresent(<<f.id, f.productId, f.gamePassId, f.assetId, f.passId>>, Undefined)
           /\ rec.name = FirstPresent(<<f.displayName, f.name>>, Str("Unknown"))
           /\ rec.description = FirstPresent(<<f.displayDescription, f.description>>, Str(""))

\* C18 amended: id, name and description are each the first candidate, in
\* the fixed order, whose value is truthy; undefined, null, 0, "" and false
\* are all passed over.  When no candidate is truthy, name is "Unknown",
\* description is "" and id is whatever the last candidate, passId, holds.
C18_FirstTruthyWins ==
    Normalized =>
        LET f == probe.item.f
            rec == probe.out.val[1]
        IN /\ rec.id = FirstTruthy(<<f.id, f.productId, f.gamePassId, f.assetId, f.passId>>, f.passId)
           /\ rec.name = FirstTruthy(<<f.displayName, f.name>>, Str("Unknown"))
           /\ rec.description = FirstTruthy(<<f.displayDescription, f.description>>, Str(""))

\* An item whose id is 0 and whose productId is 12 came out with id 12, and
\* one whose displayName is "" and has no name came out as "Unknown".
C18_Witness ==
    /\ Normalized
    /\ \/ /\ probe.item.f.id = Num(0) /\ probe.item.f.productId = Num(12)
          /\ probe.out.val[1].id = Num(12)
       \/ /\ probe.item.f.displayName = Str("") /\ probe.item.f.name = Undefined
          /\ probe.out.val[1].name = Str("Unknown")

AssetUri(v) == Str("rbxassetid://" \o TemplateStr(v))

\* C19 as stated: an item that carries displayIconImageAssetId, else
\* iconImageAssetId, gets rbxassetid://<that id>; a URL field is used only
\* when neither asset-id field is there; the icon is "" when no asset-id
\* field and no URL field is there.
C19_AssetIdFieldWins ==
    Normalized =>
        LET f == probe.item.f
            rec == probe.out.val[1]
            aid == FirstPresent(<<f.displayIconImageAssetId, f.iconImageAssetId>>, Undefined)
            url == FirstPresent(<<f.iconImageUrl, f.icon, f.imageUrl>>, Undefined)
        IN /\ aid # Undefined => rec.icon = AssetUri(aid)
           /\ (Truthy(rec.icon) /\ rec.icon \in {f.iconImageUrl, f.icon, f.imageUrl}) => aid = Undefined
           /\ (aid = Undefined /\ url = Undefined) => rec.icon = Str("")

\* C19 amended: when displayIconImageAssetId, else iconImageAssetId, holds a
\* truthy value the icon is rbxassetid://<that value>, whatever the URL
\* fields hold; otherwise (both undefined, null, 0, "" or false) the icon is
\* the first truthy one of iconImageUrl, icon, imageUrl, and "" when none is.
C19_TruthyAssetIdWins ==
    Normalized =>
        LET f == probe.item.f
            rec == probe.out.val[1]
            aid == FirstTruthy(<<f.displayIconImageAssetId, f.iconImageAssetId>>, Undefined)
        IN rec.icon = IF aid # Undefined THEN AssetUri(aid)
                      ELSE FirstTruthy(<<f.iconImageUrl, f.icon, f.imageUrl>>, Str(""))

\* An item with the second asset-id field and a URL field came out with the
\* asset URI.
C19_Witness ==
    /\ Normalized
    /\ ~Truthy(probe.item.f.displayIconImageAssetId)
    /\ probe.item.f.iconImageAssetId = Str("22")
    /\ probe.item.f.iconImageUrl = Str("http://c")
    /\ probe.out.val[1].icon = Str("rbxassetid://22")

\* C20: while one aggregation waits for ever on a call that never completes,
\* every other request that has arrived, an aggregation for the same owner
\* or another or a universeId request, is answered once the calls it issued
\* itself have completed.
\* The cache routes have no call to wait for: each is one step that can
\* always be taken.
C20_OthersRunToCompletion ==
    /\ \A q \in Reqs : (req[q].pc # "idle" /\ hung.r # q) ~> (req[q].pc = "done")
    /\ [](ENABLED ClearAll /\ ENABLED CacheInfo /\ \A u \in Users : ENABLED ClearOne(u))

\* An aggregation waits on its hung call while a later aggregation for the
\* same owner has fetched, stored and been answered.
C20_Witness ==
    \E r, q \in Reqs :
        /\ hung.r = r /\ r < q
        /\ \/ Hung(r, 0) /\ req[r].pc = "awaitGames"
           \/ Hung(r, 1) /\ req[r].pc = "awaitPasses"
        /\ FetchedDone(req[q]) /\ req[q].userId = req[r].userId
        /\ req[q].result # <<>>

\* A child whose id, else universeId, gives something to query.
Resolvable(game) == Truthy(game.id) \/ Truthy(game.universeId)

\* C21: no item call is issued for a null or missing child id: every id
\* called is the id, else the universeId, of a child of the owner and is
\* neither null nor undefined; and the children that give no id take none of
\* the ten places, so the number of calls is the number of resolvable
\* children, up to ten.
C21_UnresolvableChildrenSkipped ==
    \A r \in Reqs :
        IsUser(req[r]) =>
            LET games == req[r].games
                n == Cardinality({i \in 1..Len(games) : Resolvable(games[i])})
            IN /\ \A k \in 1..Len(req[r].passCalls) :
                      /\ req[r].passCalls[k] \notin {Null, Undefined}
                      /\ \E i \in 1..Len(games) :
                             /\ Resolvable(games[i])
                             /\ req[r].passCalls[k] =
                                    (IF Truthy(games[i].id) THEN games[i].id ELSE games[i].universeId)
               /\ req[r].pc \in {"awaitPasses", "done"} =>
                      Len(req[r].passCalls) = (IF n < FanOutCap THEN n ELSE FanOutCap)

\* An owner with an unresolvable child among the first ten and more than ten
\* resolvable ones: ten calls were issued.
C21_Witness ==
    \E r \in Reqs :
        /\ IsUser(req[r]) /\ req[r].pc \in {"awaitPasses", "done"}
        /\ \E i \in 1..FanOutCap : i <= Len(req[r].games) /\ ~Resolvable(req[r].games[i])
        /\ Cardinality({i \in 1..Len(req[r].games) : Resolvable(req[r].games[i])}) > FanOutCap
        /\ Len(req[r].passCalls) = FanOutCap

\* The child calls of a request that were rejected.
FailedChildren(rq) == {i \in 1..Len(rq.slots) : rq.slots[i].st = "done" /\ ~rq.slots[i].settled.ok}

\* C22: when the item call of a universeId request fails (transport error,
\* status other than 200, body that does not parse) the request is answered
\* 500 with success false and the failure's message; when the same call
\* fails for a child of an aggregation, the child adds nothing and the
\* aggregation is answered 200 with the records of the other children.
C22_DirectFailureIs500 ==
    [][ \A r \in Reqs :
          /\ \A reply \in PassReplies(req[r].universeId) :
                 (UniverseSettle(r, reply) /\ ~fetchUniverseGamePasses(reply).ok) =>
                     /\ req'[r].pc = "done"
                     /\ req'[r].response = Fail(500, fetchUniverseGamePasses(reply).message)
                     /\ ~req'[r].response.success
          /\ (Returns(r) /\ IsUser(req'[r]) /\ FailedChildren(req'[r]) # {}) =>
                 /\ \A i \in FailedChildren(req'[r]) : req'[r].allResults[i] = <<>>
                 /\ req'[r].response = Ok200(Flat(req'[r].allResults))
                 /\ req'[r].response.status = 200 /\ req'[r].response.success
      ]_vars

\* A universeId request was answered 500 after its call failed, and an
\* aggregation one of whose child calls failed was answered 200.
C22_Witness ==
    \E r, q \in Reqs :
        /\ IsUniverse(req[r]) /\ req[r].pc = "done"
        /\ req[r].response.status = 500 /\ req[r].response.error = "parse"
        /\ FetchedDone(req[q]) /\ FailedChildren(req[q]) # {}
        /\ req[q].response.status = 200

\* C23: an aggregation whose child-enumeration call fails (the call is
\* rejected, or its body is null and reading it throws) leaves the cache as
\* it was: no entry appears for the owner, and an entry that was there keeps
\* its records and its timestamp.
C23_FailedEnumerationKeepsCache ==
    [][ \A r \in Reqs :
            (Returns(r) /\ IsUser(req'[r]) /\ req'[r].how \in {"rejected", "threw"}) =>
                /\ passCache' = passCache
                /\ passCache'[req'[r].userId].present = passCache[req'[r].userId].present
                /\ passCache'[req'[r].userId].passes = passCache[req'[r].userId].passes
                /\ passCache'[req'[r].userId].timestamp = passCache[req'[r].userId].timestamp
      ]_vars

\* A forced call whose enumeration was rejected has returned, and the entry
\* the call before it stored, with records, is in the cache under its own
\* timestamp.
C23_Witness ==
    \E r \in Reqs :
        /\ IsUser(req[r]) /\ req[r].pc = "done" /\ req[r].how = "rejected"
        /\ req[r].forceRefresh /\ ~req[r].overlap
        /\ req[r].prev.stored /\ req[r].prev.res # <<>>
        /\ passCache[req[r].userId] = Entry(req[r].prev.res, req[r].prev.win)

\* C24: at every instant and for every entry, the info route reports the
\* entry expired exactly when a get of its key without forceRefresh would
\* return nothing, the age CACHE_DURATION included.
C24_InfoAgreesWithGet ==
    \A u \in Users :
        passCache[u].present =>
            (cacheInfo(passCache, now).entries[u].isExpired
                 <=> ~getCachedPasses(passCache, now, u, FALSE).hit)

\* An entry is exactly CACHE_DURATION old: reported expired, and not served.
C24_Witness ==
    \E u \in Users :
        /\ passCache[u].present
        /\ now - passCache[u].timestamp = CACHE_DURATION
        /\ cacheInfo(passCache, now).entries[u].isExpired
        /\ cacheInfo(passCache, now).entries[u].expiresInSeconds = 0
        /\ ~getCachedPasses(passCache, now, u, FALSE).hit

\* C25: a clear, of one key or of all, cancels nothing: the aggregations in
\* flight are where they were after it, and an aggregation that missed the
\* cache before its key's entry was cleared still stores what it fetched
\* under that key when it completes, with the time of the store.
C25_ClearCancelsNothing ==
    [][ /\ (\E u \in Users : passCache[u].present /\ ~passCache'[u].present) =>
               \A r \in Reqs :
                   /\ req'[r].pc = req[r].pc
                   /\ req'[r].slots = req[r].slots
                   /\ req'[r].allResults = req[r].allResults
                   /\ req'[r].response = req[r].response
                   /\ (InFlightFor(r, req[r].userId) /\ passCache[req[r].userId].present
                           /\ ~passCache'[req[r].userId].present) => req'[r].wiped
        /\ \A r \in Reqs :
               (Returns(r) /\ req[r].wiped) =>
                   /\ req[r].pc \in {"awaitGames", "awaitPasses"}
                   /\ req'[r].how = "fetched" =>
                          passCache'[req'[r].userId] = Entry(req'[r].result, now)
      ]_vars

\* The entry of an owner was cleared while an aggregation for the owner was
\* in flight, the clock moved on, and the aggregation has stored its records:
\* the entry is back, stamped later than the entry that was cleared.
C25_Witness ==
    \E r \in Reqs :
        /\ FetchedDone(req[r]) /\ req[r].wiped /\ req[r].result # <<>>
        /\ req[r].prev.stored
        /\ passCache[req[r].userId].present
        /\ passCache[req[r].userId].passes = req[r].result
        /\ passCache[req[r].userId].timestamp > req[r].prev.win
\* C26: when every remote call issued completes or fails, every request to
\* /api/gamepasses that arrived is answered in the end, and answered once:
\* the response is set in the step that ends the handler and never changes
\* afterwards.  An aggregate call leaves its wait only by returning, and
\* what it returns is the record sequence the request is answered with.
C26_EveryRequestAnswered ==
    /\ \A r \in Reqs :
           (req[r].pc # "idle") ~> (req[r].pc = "done" /\ req[r].response # NoResponse)
    /\ [][\A r \in Reqs :
              /\ (req'[r].response # NoResponse) <=> (req'[r].pc = "done")
              /\ req[r].pc = "done" =>
                     (req'[r].pc = "done" /\ req'[r].response = req[r].response)
              /\ (req[r].pc \in {"awaitGames", "awaitPasses"} /\ req'[r].pc # req[r].pc) =>
                     \/ req[r].pc = "awaitGames" /\ req'[r].pc = "awaitPasses"
                     \/ /\ req'[r].pc = "done"
                        /\ req'[r].how \in {"fetched", "rejected", "threw", "nogames"}
                        /\ req'[r].response = Ok200(req'[r].result)]_vars

\* An aggregation that waited for two children, one of which failed, has
\* returned and its request is answered.
C26_Witness ==
    \E r \in Reqs :
        /\ FetchedDone(req[r]) /\ req[r].response = Ok200(req[r].result)
        /\ Len(req[r].slots) >= 2
        /\ FailedChildren(req[r]) # {}
        /\ \E i \in 1..Len(req[r].slots) : req[r].allResults[i] # <<>>

\* C27: whatever body the item-enumeration endpoint answers with, the
\* universeId request returns the record list that the same reply
\* contributes as the one child of an aggregation.
C27_SameUnwrap ==
    (probe.st = "body" /\ probe.child.ran /\ probe.direct.ran) =>
        probe.direct.response = Ok200(probe.child.val)

\* The two copies part only where a property is read on null: the
\* universeId request is then answered 500 and the child contributes [].
C27_SameUnlessThrown ==
    (probe.st = "body" /\ probe.child.ran /\ probe.direct.ran) =>
        \/ probe.direct.response = Ok200(probe.child.val)
        \/ /\ probe.direct.response = Fail(500, "TypeError")
           /\ probe.child.val = <<>>
           /\ \/ probe.reply.json.t = "null"
              \/ \E i \in 1..Len(passesArrayOf(probe.reply.json).items) :
                     passesArrayOf(probe.reply.json).items[i].t = "null"

====
